---- MODULE Spec2Model ----
(***************************************************************************)
(* Restaurant directory API (rosiejh/jomato): the router of                *)
(* routes/restaurantRoutes.js and the request handlers of the restaurant   *)
(* controller, each handler an async function that suspends on its         *)
(* database calls.  Strings are sequences of one-character strings, so     *)
(* that split(',') and $toUpper are computed and not assumed.              *)
(***************************************************************************)
EXTENDS Integers, Sequences, FiniteSets, TLC

VARIABLES db, nextId, req

vars == <<db, nextId, req>>

\* ------------------------------------------------------------------ bounds
MaxReq == 1
MaxId == 2
MaxDocs == 3

Slots == 1..MaxReq

\* ----------------------------------------------------------------- strings
S_reviews == <<"r","e","v","i","e","w","s">>
S_within == <<"w","i","t","h","i","n">>
S_near == <<"n","e","a","r">>
S_distances_from == <<"d","i","s","t","a","n","c","e","s","-","f","r","o","m">>
S_unit == <<"u","n","i","t">>
S_stats_by_suburb == <<"s","t","a","t","s","-","b","y","-","s","u","b","u","r","b">>
S_stats_by_cuisine == <<"s","t","a","t","s","-","b","y","-","c","u","i","s","i","n","e">>
S_km == <<"k","m">>
S_mi == <<"m","i">>
S_ft == <<"f","t">>

\* JavaScript's undefined, where a string may stand: no string of characters equals it
Undefined == <<"undefined">>
\* null, where a document may stand
Null == [null |-> TRUE]

\* String.prototype.split(',') : the pieces between the commas, empty ones kept
RECURSIVE SplitFrom(_, _, _)
SplitFrom(s, i, cur) ==
  IF i > Len(s) THEN <<cur>>
  ELSE IF s[i] = "," THEN <<cur>> \o SplitFrom(s, i + 1, <<>>)
  ELSE SplitFrom(s, i + 1, Append(cur, s[i]))

SplitComma(s) == SplitFrom(s, 1, <<>>)

\* const [lat, lng] = latlng.split(',') : a missing element is undefined
Destructure(a, i) == IF i <= Len(a) THEN a[i] ELSE Undefined

\* !x for a string or undefined
Falsy(x) == x = Undefined \/ x = <<>>

Digits == <<"0","1","2","3","4","5","6","7","8","9">>

DigitVal(c) == (CHOOSE k \in 1..10 : Digits[k] = c) - 1

\* the number a string of decimal digits coerces to in `distance / 6378.16`
RECURSIVE ToNumber(_)
ToNumber(s) ==
  IF s = <<>> THEN 0
  ELSE 10 * ToNumber(SubSeq(s, 1, Len(s) - 1)) + DigitVal(s[Len(s)])

LowerChars == <<"a","b","c","d","e","f","g","h","i","j","k","l","m",
                "n","o","p","q","r","s","t","u","v","w","x","y","z">>
UpperChars == <<"A","B","C","D","E","F","G","H","I","J","K","L","M",
                "N","O","P","Q","R","S","T","U","V","W","X","Y","Z">>

UpperChar(c) ==
  IF \E k \in 1..26 : LowerChars[k] = c
  THEN UpperChars[CHOOSE k \in 1..26 : LowerChars[k] = c]
  ELSE c

\* the aggregation operator $toUpper
ToUpperKeepCase(s) == s

ToUpper(s) == [i \in 1..Len(s) |-> UpperChar(s[i])]

\* ------------------------------------------------------------------ router
Methods == {"GET", "POST", "PATCH", "DELETE"}

Lit(s) == [lit |-> s]
Param(n) == [param |-> n]
IsLit(x) == "lit" \in DOMAIN x

CreateRoles == {"staff", "owner", "admin"}
UpdateRoles == {"staff", "owner", "admin"}
DeleteRolesWithStaff == {"staff", "owner", "admin"}
DeleteRoles == {"owner", "admin"}

Mw(n) == [mw |-> n, roles |-> {}]
restrictTo(roles) == [mw |-> "restrictTo", roles |-> roles]

\* the router's stack, in the order the layers are registered
Layers == <<
  [pattern |-> <<Param("restaurantId"), Lit(S_reviews)>>, prefix |-> TRUE,
   methods |-> [m \in Methods |-> <<Mw("reviewRouter")>>]],
  [pattern |-> <<Lit(S_within), Param("distance"), Param("unit"), Lit(S_near), Param("latlng")>>,
   prefix |-> FALSE,
   methods |-> ("GET" :> <<Mw("getRestaurantsWithin")>>)],
  [pattern |-> <<Lit(S_distances_from), Param("latlng"), Lit(S_unit), Param("unit")>>,
   prefix |-> FALSE,
   methods |-> ("GET" :> <<Mw("getDistances")>>)],
  [pattern |-> <<>>, prefix |-> FALSE,
   methods |-> ("GET" :> <<Mw("advancedQuery"), Mw("getAllRestaurants")>>) @@
               ("POST" :> <<Mw("protect"), restrictTo(CreateRoles), Mw("createRestaurant")>>)],
  [pattern |-> <<Param("id")>>, prefix |-> FALSE,
   methods |-> ("GET" :> <<Mw("getRestaurant")>>) @@
               ("PATCH" :> <<Mw("protect"), restrictTo(UpdateRoles), Mw("updateRestaurant")>>) @@
               ("DELETE" :> <<Mw("protect"), restrictTo(DeleteRoles), Mw("deleteRestaurant")>>)]
>>

\* a layer's path pattern against the request path, segment by segment
MatchPath(layer, path) ==
  /\ IF layer.prefix THEN Len(path) >= Len(layer.pattern)
                     ELSE Len(path) = Len(layer.pattern)
  /\ \A i \in 1..Len(layer.pattern) :
       IsLit(layer.pattern[i]) => path[i] = layer.pattern[i].lit

Handles(layer, method, path) ==
  MatchPath(layer, path) /\ method \in DOMAIN layer.methods

\* req.params of a matched layer
ParamsOf(layer, path) ==
  LET idx == {i \in 1..Len(layer.pattern) : ~IsLit(layer.pattern[i])}
  IN [n \in {layer.pattern[i].param : i \in idx} |->
        path[CHOOSE i \in idx : layer.pattern[i].param = n]]

NoRoute == [chain |-> <<>>, params |-> [n \in {} |-> <<>>]]

\* the first layer, in registration order, that takes the request
Route(method, path) ==
  LET hits == {i \in 1..Len(Layers) : Handles(Layers[i], method, path)}
  IN IF hits = {} THEN NoRoute
     ELSE LET i == CHOOSE k \in hits : \A j \in hits : k <= j
          IN [chain |-> Layers[i].methods[method], params |-> ParamsOf(Layers[i], path)]


\* ---------------------------------------------------------------- requests
Roles == {"user", "staff", "owner", "admin"}
Creds == Roles \cup {"none"}

IdName(n) == <<"i", "d", Digits[n + 1]>>
Ids == {IdName(n) : n \in 1..MaxId}

EmptyParams == [n \in {} |-> <<>>]

SuccessBody(data) == [status |-> "success", data |-> data]
CountedBody(count, data) == [status |-> "success", count |-> count, data |-> data]

\* res.status(code).json(body)
Json(code, body) == [k |-> "json", status |-> code, body |-> body]
\* next(err)
NextEv(err) == [k |-> "next", err |-> err]

AppError(message, statusCode) ==
  [name |-> "AppError", message |-> message, statusCode |-> statusCode]
\* what a rejected driver promise carries (a cast, validation or connection error)
DbError == [name |-> "DbError"]

\* a request's record: where its chain or handler stands, what it awaits, the
\* calls it made on res and next (out), and, as history, what it wrote
Idle ==
  [pc |-> "idle", method |-> "", path |-> <<>>, chain |-> <<>>, params |-> EmptyParams,
   user |-> "", op |-> Null, cont |-> "", ret |-> Null, advancedQuery |-> Null,
   out |-> <<>>, bg |-> "none", wrote |-> {}, dbFailed |-> FALSE, hit |-> FALSE]

\* the pc a middleware chain hands control to
EnterChain(chain) == IF chain = <<>> THEN "done" ELSE Head(chain).mw

\* express hands the request to the router: the matched layer's chain starts
Dispatch(r, method, path) ==
  LET rt == Route(method, path)
  IN /\ req[r].pc = "idle"
     /\ req' = [req EXCEPT ![r] =
          [Idle EXCEPT !.pc = EnterChain(rt.chain), !.method = method, !.path = path,
                       !.chain = rt.chain, !.params = rt.params,
                       !.out = IF rt.chain = <<>> THEN <<[k |-> "unmatched"]>> ELSE <<>>]]
     /\ UNCHANGED <<db, nextId>>

\* next() of a middleware: the rest of the chain
Advance(s) == [s EXCEPT !.chain = Tail(s.chain), !.pc = EnterChain(Tail(s.chain))]

Finish(s, ev) == [s EXCEPT !.pc = "done", !.out = Append(s.out, ev)]

\* auth middleware: the token names a user, or the request is refused with 401
protect(r) ==
  /\ req[r].pc = "protect"
  /\ \E cred \in Creds :
       req' = [req EXCEPT ![r] =
         IF cred = "none"
         THEN Finish(req[r], NextEv(AppError("unauthorized", 401)))
         ELSE Advance([req[r] EXCEPT !.user = cred])]
  /\ UNCHANGED <<db, nextId>>

\* auth middleware: the user's role is one of the route's, or 403
restrictToMw(r) ==
  /\ req[r].pc = "restrictTo"
  /\ req' = [req EXCEPT ![r] =
       IF req[r].user \in Head(req[r].chain).roles
       THEN Advance(req[r])
       ELSE Finish(req[r], NextEv(AppError("forbidden", 403)))]
  /\ UNCHANGED <<db, nextId>>

\* the nested review router takes the request over
reviewRouter(r) ==
  /\ req[r].pc = "reviewRouter"
  /\ req' = [req EXCEPT ![r] = Finish(req[r], [k |-> "delegated"])]
  /\ UNCHANGED <<db, nextId>>

\* asyncHandler: a rejection of the handler's promise goes to next
asyncHandlerCatch(s, err) == Finish([s EXCEPT !.dbFailed = TRUE], NextEv(err))

\* query-translation middleware: attaches the ready result, or fails
advancedQuery(r) ==
  /\ req[r].pc = "advancedQuery"
  /\ \E ok \in BOOLEAN :
       req' = [req EXCEPT ![r] =
         IF ok
         THEN Advance([req[r] EXCEPT
                !.advancedQuery = CountedBody(Cardinality(db), db)])
         ELSE asyncHandlerCatch(req[r], DbError)]
  /\ UNCHANGED <<db, nextId>>

\* the slot of a finished request, all of whose database calls have settled
Close(r) ==
  /\ req[r].pc = "done"
  /\ req[r].bg # "pending"
  /\ req' = [req EXCEPT ![r] = Idle]
  /\ UNCHANGED <<db, nextId>>

\* `await <op>`: the handler suspends until the driver settles the call
Await(s, op, cont) == [s EXCEPT !.pc = "await", !.op = op, !.cont = cont]


\* -------------------------------------------------------------- collection
\* Model.findById: the document of the collection with that _id, or null
FindByIdAny(coll, id) ==
  IF coll = {} THEN Null ELSE CHOOSE d \in coll : TRUE

FindById(coll, id) ==
  IF \E d \in coll : d._id = id THEN CHOOSE d \in coll : d._id = id ELSE Null

\* the update of findByIdAndUpdate: the body's schema fields replace the document's
Merge(doc, body) ==
  [f \in DOMAIN doc |-> IF f \in DOMAIN body /\ f # "_id" THEN body[f] ELSE doc[f]]

UpdateOptionsOld == [new |-> FALSE, runValidators |-> TRUE]
UpdateOptions == [new |-> TRUE, runValidators |-> TRUE]

\* all orders of a finite set
Perms(S) ==
  {s \in [1..Cardinality(S) -> S] : \A i, j \in 1..Cardinality(S) : s[i] = s[j] => i = j}

RECURSIVE SumOver(_, _)
SumOver(S, field) ==
  IF S = {} THEN 0
  ELSE LET x == CHOOSE y \in S : TRUE
       IN x.doc[field] + SumOver(S \ {x}, field)

\* $unwind: one row per element of the array field; a document with none gives no row
Unwind(coll) ==
  UNION {{[doc |-> d, key |-> d.cuisine[i], i |-> i] : i \in 1..Len(d.cuisine)} : d \in coll}

\* the rows $group sees without an $unwind: one per document
SuburbRows(coll) == {[doc |-> d, key |-> d.suburb, i |-> 0] : d \in coll}

\* $group by the uppercased key: a count, a sum and an average per group
Group(rows) ==
  {LET members == {x \in rows : ToUpper(x.key) = k}
   IN [_id |-> k,
       numRestaurants |-> Cardinality(members),
       numRatings |-> SumOver(members, "ratingsQuantity"),
       avgRating |-> [sum |-> SumOver(members, "ratingsAverage"),
                      n |-> Cardinality(members)]]
   : k \in {ToUpper(x.key) : x \in rows}}

SortSpecTwoKeys == <<[key |-> "numRestaurants", dir |-> -1], [key |-> "numRatings", dir |-> -1]>>
SortSpec ==
  <<[key |-> "numRestaurants", dir |-> -1], [key |-> "numRatings", dir |-> -1],
    [key |-> "avgRating", dir |-> -1]>>

Sign(x) == IF x < 0 THEN -1 ELSE IF x > 0 THEN 1 ELSE 0

\* -1, 0, 1 : how g's value of the key compares with h's
KeyCmp(key, g, h) ==
  IF key = "avgRating"
  THEN Sign(g.avgRating.sum * h.avgRating.n - h.avgRating.sum * g.avgRating.n)
  ELSE Sign(g[key] - h[key])

\* $sort's comparison: the first key that differs decides, by its direction
RECURSIVE SortCmp(_, _, _)
SortCmp(spec, g, h) ==
  IF spec = <<>> THEN 0
  ELSE LET c == KeyCmp(Head(spec).key, g, h)
       IN IF c # 0 THEN c * Head(spec).dir ELSE SortCmp(Tail(spec), g, h)

\* the orders $sort may return: groups that compare equal come in any order
Sorted(groups) ==
  {s \in Perms(groups) : \A i \in 1..(Len(s) - 1) : SortCmp(SortSpec, s[i], s[i + 1]) <= 0}

\* $project {name: 1, distance: 1} over what $geoNear yields, nearest first; which
\* document is nearer is the engine's answer
GeoNear(coll, near, multiplier) ==
  {[i \in 1..Len(s) |-> [_id |-> s[i]._id, distanceMultiplier |-> multiplier]] : s \in Perms(coll)}

\* what the driver may answer to a call: the collection after it and the value
\* the promise resolves with
Outcomes(op, coll) ==
  CASE op.op = "findById" ->
         {[coll |-> coll, ret |-> FindById(coll, op.id), wrote |-> {}]}
    [] op.op = "create" ->
         {[coll |-> coll \cup {op.doc}, ret |-> op.doc, wrote |-> {"create"}]}
    [] op.op = "findByIdAndUpdate" ->
         LET old == FindById(coll, op.id)
         IN IF old = Null
            THEN {[coll |-> coll, ret |-> Null, wrote |-> {}]}
            ELSE {[coll |-> (coll \ {old}) \cup {Merge(old, op.update)},
                   ret |-> IF op.options.new THEN Merge(old, op.update) ELSE old,
                   wrote |-> {"update"}]}
    [] op.op = "find" ->
         {[coll |-> coll, ret |-> sub, wrote |-> {}] : sub \in SUBSET coll}
    [] op.op = "geoNear" ->
         {[coll |-> coll, ret |-> s, wrote |-> {}] : s \in GeoNear(coll, op.near, op.distanceMultiplier)}
    [] op.op = "statsBySuburb" ->
         {[coll |-> coll, ret |-> s, wrote |-> {}] : s \in Sorted(Group(SuburbRows(coll)))}
    [] op.op = "statsByCuisine" ->
         {[coll |-> coll, ret |-> s, wrote |-> {}] : s \in Sorted(Group(Unwind(coll)))}

\* history: whether the call names an _id that is in the collection as it executes
IdInCollection(op, coll) == "id" \in DOMAIN op /\ \E d \in coll : d._id = op.id

\* the driver resolves the awaited call: the handler resumes with the value
DbResolve(r) ==
  /\ req[r].pc = "await"
  /\ \E o \in Outcomes(req[r].op, db) :
       /\ db' = o.coll
       /\ req' = [req EXCEPT ![r] =
            [req[r] EXCEPT !.pc = req[r].cont, !.ret = o.ret,
                           !.wrote = req[r].wrote \cup o.wrote,
                           !.hit = IdInCollection(req[r].op, db)]]
  /\ UNCHANGED nextId

\* the driver rejects the awaited call: the handler's promise rejects
DbReject(r) ==
  /\ req[r].pc = "await"
  /\ req' = [req EXCEPT ![r] = asyncHandlerCatch(req[r], DbError)]
  /\ UNCHANGED <<db, nextId>>


\* ---------------------------------------------------------------- handlers
NotFound(id) == AppError(<<"A restaurant with the id of", id, "is not found.">>, 404)

getAllRestaurants(r) ==
  /\ req[r].pc = "getAllRestaurants"
  /\ req' = [req EXCEPT ![r] = Finish(req[r], Json(200, req[r].advancedQuery))]
  /\ UNCHANGED <<db, nextId>>

getRestaurant(r) ==
  /\ req[r].pc = "getRestaurant"
  /\ req' = [req EXCEPT ![r] =
       Await(req[r], [op |-> "findById", id |-> req[r].params.id, populate |-> "reviews"],
             "getRestaurant_2")]
  /\ UNCHANGED <<db, nextId>>

getRestaurant_2(r) ==
  /\ req[r].pc = "getRestaurant_2"
  /\ req' = [req EXCEPT ![r] =
       IF req[r].ret = Null
       THEN Finish(req[r], NextEv(NotFound(req[r].params.id)))
       ELSE Finish(req[r], Json(200, SuccessBody(req[r].ret)))]
  /\ UNCHANGED <<db, nextId>>

\* Restaurant.create(req.body): the document gets its _id as it is built
createRestaurant(r, body) ==
  /\ req[r].pc = "createRestaurant"
  /\ nextId <= MaxId
  /\ nextId' = nextId + 1
  /\ req' = [req EXCEPT ![r] =
       Await(req[r], [op |-> "create", doc |-> [_id |-> IdName(nextId)] @@ body],
             "createRestaurant_2")]
  /\ UNCHANGED db

createRestaurant_2(r) ==
  /\ req[r].pc = "createRestaurant_2"
  /\ req' = [req EXCEPT ![r] = Finish(req[r], Json(201, SuccessBody(req[r].ret)))]
  /\ UNCHANGED <<db, nextId>>

updateRestaurant(r, body) ==
  /\ req[r].pc = "updateRestaurant"
  /\ req' = [req EXCEPT ![r] =
       Await(req[r], [op |-> "findByIdAndUpdate", id |-> req[r].params.id,
                      update |-> body, options |-> UpdateOptions],
             "updateRestaurant_2")]
  /\ UNCHANGED <<db, nextId>>

updateRestaurant_2(r) ==
  /\ req[r].pc = "updateRestaurant_2"
  /\ req' = [req EXCEPT ![r] =
       IF req[r].ret = Null
       THEN Finish(req[r], NextEv(NotFound(req[r].params.id)))
       ELSE Finish(req[r], Json(200, SuccessBody(req[r].ret)))]
  /\ UNCHANGED <<db, nextId>>

deleteRestaurant(r) ==
  /\ req[r].pc = "deleteRestaurant"
  /\ req' = [req EXCEPT ![r] =
       Await(req[r], [op |-> "findById", id |-> req[r].params.id, populate |-> ""],
             "deleteRestaurant_2")]
  /\ UNCHANGED <<db, nextId>>

\* restaurant.remove() is started and not awaited: the response goes out in the
\* same turn, before the driver has done anything
deleteRestaurant_2(r) ==
  /\ req[r].pc = "deleteRestaurant_2"
  /\ req' = [req EXCEPT ![r] =
       IF req[r].ret = Null
       THEN Finish(req[r], NextEv(NotFound(req[r].params.id)))
       ELSE Finish([req[r] EXCEPT !.bg = "pending"], Json(200, SuccessBody(req[r].ret)))]
  /\ UNCHANGED <<db, nextId>>

\* the driver carries out the removal that deleteRestaurant started
RemoveResolve(r) ==
  /\ req[r].bg = "pending"
  /\ db' = {d \in db : d._id # req[r].ret._id}
  /\ req' = [req EXCEPT ![r] =
       [req[r] EXCEPT !.bg = "removed",
                      !.wrote = IF db' # db THEN req[r].wrote \cup {"remove"} ELSE req[r].wrote]]
  /\ UNCHANGED nextId

\* the removal fails: nothing awaits its promise, so nothing hears of it
RemoveReject(r) ==
  /\ req[r].bg = "pending"
  /\ req' = [req EXCEPT ![r] = [req[r] EXCEPT !.bg = "failed", !.dbFailed = TRUE]]
  /\ UNCHANGED <<db, nextId>>

\* ------------------------------------------------------------ geo handlers
EarthRadiusKmTimes100 == 637816
EarthRadiusMiTimes10 == 39632
KmMultiplierDen == 1000
MiMultiplierNum == 621371
MiMultiplierDen == 1000000000

BadLatLng == AppError("Please provide latitude and longitude of a point", 400)
BadUnit == AppError("Please provide unit in km(kilometres) or mi(miles)", 400)

\* the next(err) calls of the two validation ifs, in order; neither returns
GeoValidationFirstOnly(lat, lng, unit) ==
  IF Falsy(lat) \/ Falsy(lng) THEN <<NextEv(BadLatLng)>>
  ELSE IF unit # S_km /\ unit # S_mi THEN <<NextEv(BadUnit)>> ELSE <<>>

GeoValidation(lat, lng, unit) ==
  (IF Falsy(lat) \/ Falsy(lng) THEN <<NextEv(BadLatLng)>> ELSE <<>>) \o
  (IF unit # S_km /\ unit # S_mi THEN <<NextEv(BadUnit)>> ELSE <<>>)

\* distance / 6378.16 or distance / 3963.2, as a fraction
Radius(distance, unit) ==
  IF unit = S_km
  THEN [num |-> ToNumber(distance) * 100, den |-> EarthRadiusKmTimes100]
  ELSE [num |-> ToNumber(distance) * 10, den |-> EarthRadiusMiTimes10]

\* 0.001 or 0.000621371, as a fraction
DistanceMultiplier(unit) ==
  IF unit = S_km
  THEN [num |-> 1, den |-> KmMultiplierDen]
  ELSE [num |-> MiMultiplierNum, den |-> MiMultiplierDen]

\* x * 1
NaN == [nan |-> TRUE]
TimesOne(x) == IF x = Undefined THEN NaN ELSE ToNumber(x)

getRestaurantsWithin(r) ==
  /\ req[r].pc = "getRestaurantsWithin"
  /\ LET distance == req[r].params.distance
         unit == req[r].params.unit
         parts == SplitComma(req[r].params.latlng)
         lat == Destructure(parts, 1)
         lng == Destructure(parts, 2)
         s == [req[r] EXCEPT !.out = req[r].out \o GeoValidation(lat, lng, unit)]
     IN req' = [req EXCEPT ![r] =
          Await(s, [op |-> "find",
                    centerSphere |-> <<<<lng, lat>>, Radius(distance, unit)>>],
                "getRestaurantsWithin_2")]
  /\ UNCHANGED <<db, nextId>>

getRestaurantsWithin_2(r) ==
  /\ req[r].pc = "getRestaurantsWithin_2"
  /\ req' = [req EXCEPT ![r] =
       Finish(req[r], Json(200, CountedBody(Cardinality(req[r].ret), req[r].ret)))]
  /\ UNCHANGED <<db, nextId>>

getDistances(r) ==
  /\ req[r].pc = "getDistances"
  /\ LET unit == req[r].params.unit
         parts == SplitComma(req[r].params.latlng)
         lat == Destructure(parts, 1)
         lng == Destructure(parts, 2)
         s == [req[r] EXCEPT !.out = req[r].out \o GeoValidation(lat, lng, unit)]
     IN req' = [req EXCEPT ![r] =
          Await(s, [op |-> "geoNear", near |-> <<TimesOne(lng), TimesOne(lat)>>,
                    distanceMultiplier |-> DistanceMultiplier(unit)],
                "getDistances_2")]
  /\ UNCHANGED <<db, nextId>>

getDistances_2(r) ==
  /\ req[r].pc = "getDistances_2"
  /\ req' = [req EXCEPT ![r] = Finish(req[r], Json(200, SuccessBody(req[r].ret)))]
  /\ UNCHANGED <<db, nextId>>

\* ---------------------------------------------------------- stats handlers
getStatsBySuburb(r) ==
  /\ req[r].pc = "getStatsBySuburb"
  /\ req' = [req EXCEPT ![r] = Await(req[r], [op |-> "statsBySuburb"], "getStatsBySuburb_2")]
  /\ UNCHANGED <<db, nextId>>

getStatsBySuburb_2(r) ==
  /\ req[r].pc = "getStatsBySuburb_2"
  /\ req' = [req EXCEPT ![r] = Finish(req[r], Json(200, SuccessBody(req[r].ret)))]
  /\ UNCHANGED <<db, nextId>>

getStatsByCuisine(r) ==
  /\ req[r].pc = "getStatsByCuisine"
  /\ req' = [req EXCEPT ![r] = Await(req[r], [op |-> "statsByCuisine"], "getStatsByCuisine_2")]
  /\ UNCHANGED <<db, nextId>>

getStatsByCuisine_2(r) ==
  /\ req[r].pc = "getStatsByCuisine_2"
  /\ req' = [req EXCEPT ![r] = Finish(req[r], Json(200, SuccessBody(req[r].ret)))]
  /\ UNCHANGED <<db, nextId>>


\* ------------------------------------------------------------------ inputs
S_Bo == <<"B","o">>
S_BO == <<"B","O">>
S_Ma == <<"M","a">>
S_th == <<"t","h">>
S_Th == <<"T","h">>
S_pi == <<"p","i">>

DocBody(suburb, cuisine, ratingsQuantity, ratingsAverage) ==
  [suburb |-> suburb, cuisine |-> cuisine, ratingsQuantity |-> ratingsQuantity,
   ratingsAverage |-> ratingsAverage]

\* ratingsAverage in tenths
Bodies ==
  {DocBody(S_Bo, <<S_th>>, 2, 45), DocBody(S_BO, <<S_Th, S_pi>>, 2, 45),
   DocBody(S_Ma, <<>>, 0, 30), DocBody(S_Ma, <<S_pi>>, 2, 45),
   DocBody(S_Ma, <<S_pi>>, 2, 30)}

CreateBodies == {DocBody(S_Bo, <<S_th>>, 2, 45)}
UpdateBodies == {[suburb |-> S_Ma]}

\* the collections of n documents, n <= MaxDocs, with the ids id1..idn
Collections ==
  UNION {{{[_id |-> IdName(i)] @@ f[i] : i \in 1..n} : f \in [1..n -> Bodies]} : n \in 0..MaxDocs}

CrudInputs ==
  (Methods \X ({<<>>} \cup {<<i>> : i \in Ids})) \cup
  ({"GET"} \X {<<S_stats_by_suburb>>, <<S_stats_by_cuisine>>, <<IdName(1), S_reviews>>})

S_5 == <<"5">>
LatLngs == {<<"1", ",", "2">>, <<"1">>, <<",", "2">>}
Units == {S_km, S_mi, S_ft}

GeoInputs ==
  {<<"GET", <<S_within, S_5, u, S_near, ll>>>> : u \in Units, ll \in LatLngs} \cup
  {<<"GET", <<S_distances_from, ll, S_unit, u>>>> : u \in Units, ll \in LatLngs}

\* ---------------------------------------------------------- specifications
Idles == [r \in Slots |-> Idle]

Init == db = {} /\ nextId = 1 /\ req = Idles

Receive(r) == \E i \in CrudInputs : Dispatch(r, i[1], i[2])

Next ==
  \E r \in Slots :
    \/ Receive(r)
    \/ protect(r)
    \/ restrictToMw(r)
    \/ reviewRouter(r)
    \/ advancedQuery(r)
    \/ getAllRestaurants(r)
    \/ getRestaurant(r)
    \/ getRestaurant_2(r)
    \/ \E body \in CreateBodies : createRestaurant(r, body)
    \/ createRestaurant_2(r)
    \/ \E body \in UpdateBodies : updateRestaurant(r, body)
    \/ updateRestaurant_2(r)
    \/ deleteRestaurant(r)
    \/ deleteRestaurant_2(r)
    \/ DbResolve(r)
    \/ DbReject(r)
    \/ RemoveResolve(r)
    \/ RemoveReject(r)
    \/ Close(r)

Spec == Init /\ [][Next]_vars

\* the geo routes, over a collection that is there already
InitGeo == db \in {c \in Collections : Cardinality(c) <= 2 /\ \A d \in c : d.cuisine = <<>>}
           /\ nextId = 1 /\ req = Idles

ReceiveGeo(r) == \E i \in GeoInputs : Dispatch(r, i[1], i[2])

NextGeo ==
  \E r \in Slots :
    \/ ReceiveGeo(r)
    \/ getRestaurantsWithin(r)
    \/ getRestaurantsWithin_2(r)
    \/ getDistances(r)
    \/ getDistances_2(r)
    \/ DbResolve(r)
    \/ DbReject(r)
    \/ Close(r)

SpecGeo == InitGeo /\ [][NextGeo]_vars

\* the two stats handlers the controller exports, called with a request
InitStats == db \in Collections /\ nextId = 1 /\ req = Idles

Invoke(r, h, path) ==
  /\ req[r].pc = "idle"
  /\ req' = [req EXCEPT ![r] =
       [Idle EXCEPT !.pc = h, !.method = "GET", !.path = path, !.chain = <<Mw(h)>>]]
  /\ UNCHANGED <<db, nextId>>

NextStats ==
  \E r \in Slots :
    \/ Invoke(r, "getStatsBySuburb", <<S_stats_by_suburb>>)
    \/ Invoke(r, "getStatsByCuisine", <<S_stats_by_cuisine>>)
    \/ getStatsBySuburb(r)
    \/ getStatsBySuburb_2(r)
    \/ getStatsByCuisine(r)
    \/ getStatsByCuisine_2(r)
    \/ DbResolve(r)
    \/ DbReject(r)
    \/ Close(r)

SpecStats == InitStats /\ [][NextStats]_vars


\* ------------------------------------------------------------------ claims
\* the handler a request's route ends in
HandlerOf(s) == IF s.chain = <<>> THEN "" ELSE s.chain[Len(s.chain)].mw

\* the handler has been called: the middleware before it has passed
Entered(s) == s.pc # "idle" /\ Len(s.chain) = 1 /\ s.pc # s.chain[1].mw

\* control has reached the handler: it is about to run, is running or has run
Reached(s) == s.pc # "idle" /\ Len(s.chain) = 1

IsSuccess(ev) == ev.k = "json" /\ ev.body.status = "success"
IsForward(ev, code) == ev.k = "next" /\ ev.err.name = "AppError" /\ ev.err.statusCode = code
IsDbForward(ev) == ev.k = "next" /\ ev.err.name = "DbError"

HasSuccess(s) == \E i \in 1..Len(s.out) : IsSuccess(s.out[i])

ById == {"getRestaurant", "updateRestaurant", "deleteRestaurant"}

\* C1: whenever deleteRestaurant has sent its 200 success response for an id, the
\* document with that id is no longer in the collection.
C1_DeletedBeforeResponse ==
  \A r \in Slots :
    (HandlerOf(req[r]) = "deleteRestaurant" /\ HasSuccess(req[r]))
      => ~(\E d \in db : d._id = req[r].params.id)

\* C2: a request one of whose database calls failed has the error forwarded to
\* next and has sent no success envelope.
C2_DbFailureForwarded ==
  \A r \in Slots :
    req[r].dbFailed =>
      /\ \E i \in 1..Len(req[r].out) : IsDbForward(req[r].out[i])
      /\ ~HasSuccess(req[r])

\* C4: GET /stats-by-suburb is handled by getStatsBySuburb and GET
\* /stats-by-cuisine by getStatsByCuisine, neither by the '/:id' route.
C4_StatsRoutesDispatched ==
  \A r \in Slots :
    /\ (req[r].method = "GET" /\ req[r].path = <<S_stats_by_suburb>>)
         => HandlerOf(req[r]) = "getStatsBySuburb"
    /\ (req[r].method = "GET" /\ req[r].path = <<S_stats_by_cuisine>>)
         => HandlerOf(req[r]) = "getStatsByCuisine"

\* C5: createRestaurant and updateRestaurant run, and write, only for an
\* authenticated staff, owner or admin; deleteRestaurant runs, and removes, only
\* for an authenticated owner or admin.
C5_MutationsGated ==
  \A r \in Slots :
    LET s == req[r]
    IN /\ (Reached(s) /\ HandlerOf(s) \in {"createRestaurant", "updateRestaurant"})
            => s.user \in {"staff", "owner", "admin"}
       /\ (Reached(s) /\ HandlerOf(s) = "deleteRestaurant") => s.user \in {"owner", "admin"}
       /\ (s.wrote \cap {"create", "update"} # {}) => s.user \in {"staff", "owner", "admin"}
       /\ ("remove" \in s.wrote \/ s.bg # "none") => s.user \in {"owner", "admin"}
       /\ (s.op # Null /\ s.op.op \in {"create", "findByIdAndUpdate"})
            => s.user \in {"staff", "owner", "admin"}

C5_Witness ==
  \E r \in Slots : "remove" \in req[r].wrote /\ req[r].user = "owner"

\* the lookup of a get, update or delete request has been answered by the driver
LookedUp(s) ==
  /\ HandlerOf(s) \in ById
  /\ Entered(s)
  /\ s.pc = "done"
  /\ ~(\E i \in 1..Len(s.out) : IsDbForward(s.out[i]))

\* C6: a get, update or delete whose id is not in the collection forwards exactly
\* a 404 AppError, sends no success envelope and writes nothing.
C6_NotFound ==
  \A r \in Slots :
    LET s == req[r]
    IN (LookedUp(s) /\ ~s.hit) =>
         /\ Len(s.out) = 1
         /\ IsForward(s.out[1], 404)
         /\ s.wrote = {}
         /\ s.bg = "none"

C6_Witness ==
  \E r \in Slots :
    /\ LookedUp(req[r]) /\ ~req[r].hit
    /\ HandlerOf(req[r]) = "deleteRestaurant"
    /\ req[r].params.id = IdName(1)
    /\ nextId > 1

\* C7: a get, update or delete whose id is in the collection answers 200 with the
\* success envelope of the document of that id; update's document carries the
\* body's fields.
C7_Found ==
  \A r \in Slots :
    LET s == req[r]
    IN (LookedUp(s) /\ s.hit) =>
         /\ Len(s.out) = 1
         /\ s.out[1].k = "json"
         /\ s.out[1].status = 200
         /\ s.out[1].body.status = "success"
         /\ s.out[1].body.data._id = s.params.id
         /\ HandlerOf(s) = "updateRestaurant" =>
              \A f \in DOMAIN s.op.update : s.out[1].body.data[f] = s.op.update[f]

C7_Witness ==
  \E r \in Slots :
    /\ LookedUp(req[r]) /\ req[r].hit
    /\ HandlerOf(req[r]) = "updateRestaurant"
    /\ req[r].out[1].body.data.suburb = S_Ma


\* ---- geo handlers
GeoHandlers == {"getRestaurantsWithin", "getDistances"}

FirstComma(s) == CHOOSE i \in 1..Len(s) : s[i] = "," /\ \A j \in 1..(i - 1) : s[j] # ","
HasComma(s) == \E i \in 1..Len(s) : s[i] = ","

\* the 'lat,lng' pair has nothing before its comma, or no comma, or nothing after it
LatMissing(s) == s = <<>> \/ s[1] = ","
LngMissing(s) ==
  \/ ~HasComma(s)
  \/ FirstComma(s) = Len(s)
  \/ s[FirstComma(s) + 1] = ","

UnitUnknown(u) == u \notin {S_km, S_mi}

\* the forwards the validation of a geo request owes
OwedForwards(s) ==
  (IF LatMissing(s.params.latlng) \/ LngMissing(s.params.latlng) THEN 1 ELSE 0) +
  (IF UnitUnknown(s.params.unit) THEN 1 ELSE 0)

\* C3: a radius search or distances request with an unknown unit or a missing
\* latitude or longitude ends in a 400 AppError and sends no success envelope.
C3_InvalidGeoIs400 ==
  \A r \in Slots :
    LET s == req[r]
    IN (HandlerOf(s) \in GeoHandlers /\ s.pc = "done" /\ OwedForwards(s) > 0) =>
         /\ \E i \in 1..Len(s.out) : IsForward(s.out[i], 400)
         /\ ~HasSuccess(s)

\* C9: a geo handler forwards one 400 per failed check (two when both fail) and
\* goes on: it issues its query, with the miles constant for an unknown unit, and
\* when the query resolves it calls the 200 success response after the forwards.
C9_GeoValidationDoesNotHalt ==
  \A r \in Slots :
    LET s == req[r]
        n == OwedForwards(s)
    IN (HandlerOf(s) \in GeoHandlers /\ Entered(s)) =>
         /\ Len(s.out) >= n
         /\ \A i \in 1..n : IsForward(s.out[i], 400)
         /\ s.op # Null
         /\ (HandlerOf(s) = "getRestaurantsWithin" /\ s.params.unit # S_km)
              => s.op.centerSphere[2] = [num |-> ToNumber(s.params.distance) * 10, den |-> 39632]
         /\ (HandlerOf(s) = "getDistances" /\ s.params.unit # S_km)
              => s.op.distanceMultiplier = [num |-> 621371, den |-> 1000000000]
         /\ (s.pc = "done" /\ ~s.dbFailed)
              => /\ Len(s.out) = n + 1
                 /\ IsSuccess(s.out[n + 1])
                 /\ s.out[n + 1].status = 200
         /\ (s.pc = "done" /\ s.dbFailed)
              => /\ Len(s.out) = n + 1
                 /\ IsDbForward(s.out[n + 1])

C9_Witness ==
  \E r \in Slots :
    /\ req[r].pc = "done"
    /\ HandlerOf(req[r]) = "getRestaurantsWithin"
    /\ req[r].params.unit = S_ft
    /\ req[r].params.latlng = <<"1", ",", "2">>
    /\ Len(req[r].out) = 2
    /\ IsForward(req[r].out[1], 400)
    /\ IsSuccess(req[r].out[2])

\* ---- stats handlers
SameLetter(c, d) ==
  c = d \/ \E k \in 1..26 : {c, d} = {LowerChars[k], UpperChars[k]}

EqIgnoreCase(s, t) == Len(s) = Len(t) /\ \A i \in 1..Len(s) : SameLetter(s[i], t[i])

RECURSIVE SumSeq(_, _)
SumSeq(s, field) == IF s = <<>> THEN 0 ELSE Head(s)[field] + SumSeq(Tail(s), field)

RECURSIVE TagCount(_)
TagCount(coll) ==
  IF coll = {} THEN 0
  ELSE LET d == CHOOSE x \in coll : TRUE IN Len(d.cuisine) + TagCount(coll \ {d})

\* a finished stats request that sent its array
StatsOf(s, h) == HandlerOf(s) = h /\ s.pc = "done" /\ HasSuccess(s)

\* C8: suburb stats have one group per suburb up to letter case, each counting
\* its documents, so the counts add up to the number of documents; the counts of
\* cuisine stats add up to the number of cuisine tags of all documents.
C8_StatsCounts ==
  \A r \in Slots :
    LET s == req[r]
        stats == s.out[1].body.data
        classes == {{d \in db : EqIgnoreCase(d.suburb, e.suburb)} : e \in db}
    IN /\ StatsOf(s, "getStatsBySuburb") =>
            /\ SumSeq(stats, "numRestaurants") = Cardinality(db)
            /\ Len(stats) = Cardinality(classes)
            /\ \A c \in classes : \E i \in 1..Len(stats) :
                 /\ stats[i].numRestaurants = Cardinality(c)
                 /\ \A d \in c : EqIgnoreCase(stats[i]._id, d.suburb)
       /\ StatsOf(s, "getStatsByCuisine") =>
            /\ SumSeq(stats, "numRestaurants") = TagCount(db)
            /\ SumSeq(stats, "numRestaurants") >= Cardinality({d \in db : d.cuisine # <<>>})

C8_Witness ==
  \E r \in Slots :
    /\ StatsOf(req[r], "getStatsBySuburb")
    /\ \E d, e \in db : d.suburb # e.suburb /\ EqIgnoreCase(d.suburb, e.suburb)
    /\ \E d \in db : d.suburb = S_Ma
    /\ Len(req[r].out[1].body.data) = 2

AvgGreater(g, h) == g.avgRating.sum * h.avgRating.n > h.avgRating.sum * g.avgRating.n
AvgEqual(g, h) == g.avgRating.sum * h.avgRating.n = h.avgRating.sum * g.avgRating.n

TripleGreater(g, h) ==
  \/ g.numRestaurants > h.numRestaurants
  \/ g.numRestaurants = h.numRestaurants /\ g.numRatings > h.numRatings
  \/ g.numRestaurants = h.numRestaurants /\ g.numRatings = h.numRatings /\ AvgGreater(g, h)

TripleEqual(g, h) ==
  g.numRestaurants = h.numRestaurants /\ g.numRatings = h.numRatings /\ AvgEqual(g, h)

StatsHandlers == {"getStatsBySuburb", "getStatsByCuisine"}

\* C10 as stated: each group's (numRestaurants, numRatings, avgRating) is strictly
\* greater, lexicographically, than that of the group after it.
C10_StrictlyDescending ==
  \A r \in Slots : \A h \in StatsHandlers :
    StatsOf(req[r], h) =>
      LET stats == req[r].out[1].body.data
      IN \A i \in 1..(Len(stats) - 1) : TripleGreater(stats[i], stats[i + 1])

\* C10 amended: each group's triple is greater than or equal to that of the group
\* after it; groups whose triples are equal follow each other in either order.
C10_Descending ==
  \A r \in Slots : \A h \in StatsHandlers :
    StatsOf(req[r], h) =>
      LET stats == req[r].out[1].body.data
      IN \A i \in 1..(Len(stats) - 1) :
           TripleGreater(stats[i], stats[i + 1]) \/ TripleEqual(stats[i], stats[i + 1])

C10_Witness ==
  \E r \in Slots :
    /\ StatsOf(req[r], "getStatsBySuburb")
    /\ LET stats == req[r].out[1].body.data
       IN /\ Len(stats) = 2
          /\ stats[1].numRestaurants = stats[2].numRestaurants
          /\ stats[1].numRatings = stats[2].numRatings
          /\ AvgGreater(stats[1], stats[2])

====
